---- MODULE Spec2Model ----
(***************************************************************************)
(* Model of the order service: the LRU order cache (internal/cache), the   *)
(* Kafka consumer pipeline (internal/consumer), the durable store          *)
(* (internal/db) and the read path (internal/handler).                     *)
(***************************************************************************)
EXTENDS Integers, Sequences, FiniteSets, TLC

(* ---------------------------------------------------------------------- *)
(* Bounds of the model                                                     *)
(* ---------------------------------------------------------------------- *)
MaxCap == 2
MaxRestoreLen == 3

MaxLog == 2

Keys == {"A", "B", "C"}
Vers == {1, 2}
Caps == 0..MaxCap

Nil == 0

(* ---------------------------------------------------------------------- *)
(* model.Order and its parts, as read and written by validateOrder and     *)
(* InsertOrder                                                             *)
(* ---------------------------------------------------------------------- *)
MkDelivery ==
  [Name |-> "n", Phone |-> "p", Zip |-> "z", City |-> "c",
   Address |-> "a", Region |-> "r", Email |-> "e"]

MkPayment(uid, ver) ==
  [Transaction |-> uid, RequestID |-> "", Currency |-> "USD",
   Provider |-> "wbpay", Amount |-> ver, PaymentDt |-> 1, Bank |-> "alpha",
   DeliveryCost |-> 0, GoodsTotal |-> 1, CustomFee |-> 0]

MkItem(chrt) ==
  [ChrtID |-> chrt, TrackNumber |-> "t", Price |-> 1, Rid |-> "rid",
   Name |-> "name", Sale |-> 0, Size |-> "0", TotalPrice |-> 1,
   NmID |-> 1, Brand |-> "b", Status |-> 202]

MkOrder(uid, ver) ==
  [OrderUID |-> uid, TrackNumber |-> "t", Entry |-> "WBIL", Locale |-> "en",
   InternalSignature |-> "", CustomerID |-> "cust",
   DeliveryService |-> "meest", Shardkey |-> "9", SmID |-> ver,
   DateCreated |-> 0, OofShard |-> "1",
   Delivery |-> MkDelivery, Payment |-> MkPayment(uid, ver),
   Items |-> <<MkItem(ver)>>]

Orders == {MkOrder(k, v) : k \in Keys, v \in Vers}

(* the zero model.Order json.Unmarshal starts from *)
ZeroOrder ==
  [OrderUID |-> "", TrackNumber |-> "", Entry |-> "", Locale |-> "",
   InternalSignature |-> "", CustomerID |-> "", DeliveryService |-> "",
   Shardkey |-> "", SmID |-> 0, DateCreated |-> 0, OofShard |-> "",
   Delivery |-> [Name |-> "", Phone |-> "", Zip |-> "", City |-> "",
                 Address |-> "", Region |-> "", Email |-> ""],
   Payment |-> [Transaction |-> "", RequestID |-> "", Currency |-> "",
                Provider |-> "", Amount |-> 0, PaymentDt |-> 0, Bank |-> "",
                DeliveryCost |-> 0, GoodsTotal |-> 0, CustomFee |-> 0],
   Items |-> <<>>]

(* the nil *model.Order a missed map lookup yields *)
NilOrder == [OrderUID |-> ""]

SeqsUpTo(S, n) == UNION {[1..m -> S] : m \in 0..n}

KeyRank == "A" :> 1 @@ "B" :> 2 @@ "C" :> 3

(* identifier sequences up to renaming: each new identifier is the next    *)
(* unused one; the cache only compares identifiers for equality            *)
FirstUse(ids) ==
  \A i \in 1..Len(ids) :
    KeyRank[ids[i]] <= Cardinality({ids[j] : j \in 1..(i - 1)}) + 1

(* slices of orders with the given identifiers, the versions alternating   *)
(* along the slice                                                         *)
RestoreSlices(idss) ==
  {[i \in 1..Len(ids) |-> MkOrder(ids[i], (i % Cardinality(Vers)) + 1)] :
     ids \in idss}

(* arguments of Restore: any identifiers, repeated or not *)
RestoreInputs ==
  RestoreSlices({ids \in SeqsUpTo(Keys, MaxRestoreLen) : FirstUse(ids)})

IdsOf(os) == [i \in 1..Len(os) |-> os[i].OrderUID]

RECURSIVE SelectKeys(_, _)
SelectKeys(s, K) ==
  IF s = <<>> THEN <<>>
  ELSE IF Head(s) \in K THEN <<Head(s)>> \o SelectKeys(Tail(s), K)
       ELSE SelectKeys(Tail(s), K)

Range(s) == {s[i] : i \in 1..Len(s)}

Restrict(f, S) == [x \in S |-> f[x]]

(* ---------------------------------------------------------------------- *)
(* State                                                                   *)
(* ---------------------------------------------------------------------- *)
VARIABLES
  cache,    \* the OrderCache struct; cache.nodes is the heap of lruNode
  touched,  \* history: resident keys by last touch, most recent first
  written,  \* history: per resident key, the order last passed to Set/Restore
  last,     \* history: the last cache call, its arguments and results
  mu,       \* OrderCache.mu: the writer holding it and the readers sharing it
  th,       \* per calling goroutine: the call in progress and its locals
  db,       \* the tables orders, delivery, payment and items of the store
  log,      \* per partition of the topic, the payloads produced so far
  marked,   \* per partition, the offset the consumer group resumes from
  main,     \* the position of main in cmd/server
  wk,       \* the goroutine of Consumer.Start and its session
  claim,    \* per partition, the ConsumeClaim loop and its current message
  failed,   \* history: per partition, offsets whose last upsert failed
  done,     \* history: per partition, offsets upserted and set in the cache
  rq        \* per request-handling goroutine: the request in progress

cacheVars == <<cache, touched, written, last>>
concVars == <<mu, th>>
pipeVars == <<db, log, marked, main, wk, claim, failed, done, rq>>
vars == <<cache, touched, written, last, mu, th,
          db, log, marked, main, wk, claim, failed, done, rq>>

(* ---------------------------------------------------------------------- *)
(* internal/cache                                                          *)
(* ---------------------------------------------------------------------- *)
lruNode(uid) == [key |-> uid, prev |-> Nil, next |-> Nil]

New(maxSize) ==
  [orders |-> <<>>, nodeMap |-> <<>>, nodes |-> <<>>,
   lruHead |-> Nil, lruTail |-> Nil, maxSize |-> maxSize]

(* address of a freshly allocated node: the lowest one not in use *)
NewNode(nodes) ==
  CHOOSE n \in 1..(Cardinality(DOMAIN nodes) + 1) :
    /\ n \notin DOMAIN nodes
    /\ \A m \in 1..(n - 1) : m \in DOMAIN nodes

(* addToLRU linking the new node behind the tail instead of before the head *)
addToLRU_atTail(c, uid) ==
  LET node == NewNode(c.nodes) IN
  IF c.lruHead = Nil
  THEN [c EXCEPT !.nodes = (node :> lruNode(uid)) @@ @,
                 !.lruHead = node,
                 !.lruTail = node,
                 !.nodeMap = (uid :> node) @@ @]
  ELSE [c EXCEPT !.nodes = (node :> [lruNode(uid) EXCEPT !.prev = c.lruTail])
                           @@ [@ EXCEPT ![c.lruTail].next = node],
                 !.lruTail = node,
                 !.nodeMap = (uid :> node) @@ @]

addToLRU(c, uid) ==
  LET node == NewNode(c.nodes) IN
  IF c.lruHead = Nil
  THEN [c EXCEPT !.nodes = (node :> lruNode(uid)) @@ @,
                 !.lruHead = node,
                 !.lruTail = node,
                 !.nodeMap = (uid :> node) @@ @]
  ELSE [c EXCEPT !.nodes = (node :> [lruNode(uid) EXCEPT !.next = c.lruHead])
                           @@ [@ EXCEPT ![c.lruHead].prev = node],
                 !.lruHead = node,
                 !.nodeMap = (uid :> node) @@ @]

(* updateLRU that leaves the node where it is *)
updateLRU_noMove(c, uid) == c

updateLRU(c, uid) ==
  IF uid \notin DOMAIN c.nodeMap THEN c
  ELSE
    LET node == c.nodeMap[uid] IN
    IF node = c.lruHead THEN c
    ELSE
      LET n0 == c.nodes
          p  == n0[node].prev
          x  == n0[node].next
          n1 == IF p # Nil THEN [n0 EXCEPT ![p].next = x] ELSE n0
          n2 == IF x # Nil THEN [n1 EXCEPT ![x].prev = p] ELSE n1
          t1 == IF node = c.lruTail THEN n2[node].prev ELSE c.lruTail
          n3 == [n2 EXCEPT ![node].prev = Nil, ![node].next = c.lruHead]
          n4 == IF c.lruHead # Nil
                THEN [n3 EXCEPT ![c.lruHead].prev = node] ELSE n3
          t2 == IF t1 = Nil THEN node ELSE t1
      IN [c EXCEPT !.nodes = n4, !.lruHead = node, !.lruTail = t2]

(* evictLRU that removes the entry at the head of the list *)
evictLRU_head(c) ==
  IF c.lruHead = Nil THEN c
  ELSE
    LET h  == c.lruHead
        k  == c.nodes[h].key
        n  == c.nodes[h].next
        o1 == Restrict(c.orders, DOMAIN c.orders \ {k})
        m1 == Restrict(c.nodeMap, DOMAIN c.nodeMap \ {k})
        live == DOMAIN c.nodes \ {h}
    IN IF n # Nil
       THEN [c EXCEPT !.orders = o1, !.nodeMap = m1,
                      !.nodes = Restrict([@ EXCEPT ![n].prev = Nil], live),
                      !.lruHead = n]
       ELSE [c EXCEPT !.orders = o1, !.nodeMap = m1,
                      !.nodes = Restrict(@, live),
                      !.lruHead = Nil, !.lruTail = Nil]

(* the removed tail node is no longer referenced and is dropped from the heap *)
evictLRU(c) ==
  IF c.lruTail = Nil THEN c
  ELSE
    LET t  == c.lruTail
        k  == c.nodes[t].key
        p  == c.nodes[t].prev
        o1 == Restrict(c.orders, DOMAIN c.orders \ {k})
        m1 == Restrict(c.nodeMap, DOMAIN c.nodeMap \ {k})
        live == DOMAIN c.nodes \ {t}
    IN IF p # Nil
       THEN [c EXCEPT !.orders = o1, !.nodeMap = m1,
                      !.nodes = Restrict([@ EXCEPT ![p].next = Nil], live),
                      !.lruTail = p]
       ELSE [c EXCEPT !.orders = o1, !.nodeMap = m1,
                      !.nodes = Restrict(@, live),
                      !.lruHead = Nil, !.lruTail = Nil]

(* Get that links the key into the recency list on a miss as well *)
Get_addOnMiss(c, uid) ==
  LET ok == uid \in DOMAIN c.orders IN
  [c     |-> IF ok THEN updateLRU(c, uid) ELSE addToLRU(c, uid),
   order |-> IF ok THEN c.orders[uid] ELSE NilOrder,
   ok    |-> ok]

(* Get returns the cache after the call, the order and the ok flag *)
Get(c, uid) ==
  LET ok == uid \in DOMAIN c.orders IN
  [c     |-> IF ok THEN updateLRU(c, uid) ELSE c,
   order |-> IF ok THEN c.orders[uid] ELSE NilOrder,
   ok    |-> ok]

(* Set that checks the capacity before it checks for the identifier *)
Set_evictFirst(c, order) ==
  LET uid == order.OrderUID
      c1  == IF Cardinality(DOMAIN c.orders) >= c.maxSize
             THEN evictLRU(c) ELSE c
  IN IF uid \in DOMAIN c1.orders
     THEN [updateLRU(c1, uid) EXCEPT !.orders[uid] = order]
     ELSE addToLRU([c1 EXCEPT !.orders = (uid :> order) @@ @], uid)

Set(c, order) ==
  LET uid == order.OrderUID IN
  IF uid \in DOMAIN c.orders
  THEN [updateLRU(c, uid) EXCEPT !.orders[uid] = order]
  ELSE
    LET c1 == IF Cardinality(DOMAIN c.orders) >= c.maxSize
              THEN evictLRU(c) ELSE c
        c2 == [c1 EXCEPT !.orders = (uid :> order) @@ @]
    IN addToLRU(c2, uid)

RECURSIVE RestoreLoop(_, _, _)
RestoreLoop(c, os, i) ==
  IF i > Len(os) THEN c
  ELSE
    LET uid == os[i].OrderUID
        c1  == [c EXCEPT !.orders = (uid :> os[i]) @@ @]
        c2  == addToLRU(c1, uid)
    IN IF Cardinality(DOMAIN c2.orders) >= c2.maxSize THEN c2
       ELSE RestoreLoop(c2, os, i + 1)

Restore(c, os) == RestoreLoop(New(c.maxSize), os, 1)

Size(c) == Cardinality(DOMAIN c.orders)

(* ---------------------------------------------------------------------- *)
(* Views of the recency list                                               *)
(* ---------------------------------------------------------------------- *)
RECURSIVE ListFrom(_, _, _)
ListFrom(c, n, fuel) ==
  IF n = Nil \/ fuel = 0 THEN <<>>
  ELSE <<n>> \o ListFrom(c, c.nodes[n].next, fuel - 1)

(* node addresses from lruHead following next *)
ListNodes(c) == ListFrom(c, c.lruHead, Cardinality(DOMAIN c.nodes))

RECURSIVE KeysFrom(_, _, _)
KeysFrom(c, n, fuel) ==
  IF n = Nil \/ fuel = 0 THEN <<>>
  ELSE <<c.nodes[n].key>> \o KeysFrom(c, c.nodes[n].next, fuel - 1)

(* keys on the list, most recent first *)
ListKeys(c) == KeysFrom(c, c.lruHead, Cardinality(DOMAIN c.nodes))

RECURSIVE IndexedFrom(_, _, _)
IndexedFrom(c, n, fuel) ==
  IF n = Nil \/ fuel = 0 THEN <<>>
  ELSE LET k == c.nodes[n].key IN
       (IF k \in DOMAIN c.nodeMap /\ c.nodeMap[k] = n THEN <<k>> ELSE <<>>)
         \o IndexedFrom(c, c.nodes[n].next, fuel - 1)

(* eviction order over the resident keys: their indexed nodes, head first *)
LRUOrder(c) == IndexedFrom(c, c.lruHead, Cardinality(DOMAIN c.nodes))

Resident(c) == DOMAIN c.orders

(* history of touches: k becomes the most recent, keys that left are dropped *)
Touch(t, k, res) == <<k>> \o SelectKeys(t, res \ {k})

RECURSIVE TouchAll(_, _, _)
TouchAll(t, ks, res) ==
  IF ks = <<>> THEN t
  ELSE TouchAll(Touch(t, Head(ks), res \cup {Head(ks)}), Tail(ks),
                res \cup {Head(ks)})

(* ---------------------------------------------------------------------- *)
(* Cache calls as actions                                                  *)
(* ---------------------------------------------------------------------- *)
(* Node addresses are not observable by the program: after each call the   *)
(* nodes are renamed to their position on the list, the head being 1.      *)
CompactAs(c, ns, pos) ==
  [c EXCEPT
     !.nodes = [i \in 1..Len(ns) |->
                  [key  |-> c.nodes[ns[i]].key,
                   prev |-> IF c.nodes[ns[i]].prev \in DOMAIN pos
                            THEN pos[c.nodes[ns[i]].prev]
                            ELSE c.nodes[ns[i]].prev,
                   next |-> IF c.nodes[ns[i]].next \in DOMAIN pos
                            THEN pos[c.nodes[ns[i]].next]
                            ELSE c.nodes[ns[i]].next]],
     !.lruHead = IF @ \in DOMAIN pos THEN pos[@] ELSE @,
     !.lruTail = IF @ \in DOMAIN pos THEN pos[@] ELSE @,
     !.nodeMap = [k \in DOMAIN @ |->
                    IF @[k] \in DOMAIN pos THEN pos[@[k]] ELSE @[k]]]

Compact(c) ==
  CHOOSE r \in {CompactAs(c, ns, pos) :
                  <<ns, pos>> \in
                    {<<q, [a \in Range(q) |->
                            CHOOSE i \in 1..Len(q) : q[i] = a]>> :
                       q \in {ListNodes(c)}}} : TRUE

HeadKey(c) == IF c.lruHead = Nil THEN "" ELSE c.nodes[c.lruHead].key
TailKey(c) == IF c.lruTail = Nil THEN "" ELSE c.nodes[c.lruTail].key

(* number of input elements Restore went through: one node per element *)
Taken(c) == Cardinality(DOMAIN c.nodes)

RECURSIVE WriteAll(_, _, _)
WriteAll(w, os, n) ==
  IF n = 0 THEN w
  ELSE (os[n].OrderUID :> os[n]) @@ WriteAll(w, os, n - 1)

DoGet(uid) ==
  \E r \in {Get(cache, uid)} :
    /\ cache' = Compact(r.c)
    /\ touched' = IF r.ok THEN Touch(touched, uid, Resident(cache'))
                  ELSE touched
    /\ written' = written
    /\ last' = [op |-> "Get", uid |-> uid, ok |-> r.ok, order |-> r.order,
                head |-> HeadKey(cache)]

DoSet(order) ==
  /\ cache' = Compact(Set(cache, order))
  /\ touched' = Touch(touched, order.OrderUID, Resident(cache'))
  /\ written' = Restrict((order.OrderUID :> order) @@ written,
                         Resident(cache'))
  /\ last' = [op |-> "Set", uid |-> order.OrderUID, order |-> order,
              resident |-> order.OrderUID \in Resident(cache),
              before |-> Size(cache)]

DoRestore(os) ==
  /\ cache' = Compact(Restore(cache, os))
  /\ touched' = TouchAll(<<>>, SubSeq(IdsOf(os), 1, Taken(cache')), {})
  /\ written' = Restrict(WriteAll(<<>>, os, Taken(cache')), Resident(cache'))
  /\ last' = [op |-> "Restore", orders |-> os]

DoSize ==
  /\ last' = [op |-> "Size", n |-> Size(cache)]
  /\ UNCHANGED <<cache, touched, written>>

(* the calls main, the consumer and the handler make on the shared cache   *)
CallGet(uid, r) ==
  /\ r = Get(cache, uid)
  /\ cache' = Compact(r.c)
  /\ touched' = IF r.ok THEN Touch(touched, uid, Resident(cache'))
                ELSE touched
  /\ UNCHANGED <<written, last>>

CallSet(order) ==
  /\ cache' = Compact(Set(cache, order))
  /\ touched' = Touch(touched, order.OrderUID, Resident(cache'))
  /\ UNCHANGED <<written, last>>

CallRestore(os) ==
  /\ cache' = Compact(Restore(cache, os))
  /\ touched' = TouchAll(<<>>, SubSeq(IdsOf(os), 1, Taken(cache')), {})
  /\ UNCHANGED <<written, last>>

CacheGet == \E uid \in Keys : DoGet(uid)
CacheSet == \E o \in Orders : DoSet(o)
CacheRestore == \E os \in RestoreInputs : DoRestore(os)
CacheSize == DoSize

(* ---------------------------------------------------------------------- *)
(* internal/db: the store as its four tables                               *)
(* ---------------------------------------------------------------------- *)
EmptyDb == [orders |-> <<>>, delivery |-> <<>>, payment |-> <<>>,
            items |-> <<>>]

OrderRow(o) ==
  [order_uid |-> o.OrderUID, track_number |-> o.TrackNumber,
   entry |-> o.Entry, locale |-> o.Locale,
   internal_signature |-> o.InternalSignature, customer_id |-> o.CustomerID,
   delivery_service |-> o.DeliveryService, shardkey |-> o.Shardkey,
   sm_id |-> o.SmID, date_created |-> o.DateCreated,
   oof_shard |-> o.OofShard]

(* INSERT ... ON CONFLICT (key) DO NOTHING *)
InsertIgnore(table, key, row) ==
  IF key \in DOMAIN table THEN table ELSE (key :> row) @@ table

RECURSIVE InsertItems(_, _, _, _)
InsertItems(table, uid, items, i) ==
  IF i > Len(items) THEN table
  ELSE InsertItems(InsertIgnore(table, <<uid, items[i].ChrtID>>, items[i]),
                   uid, items, i + 1)

(* the store after a committed InsertOrder *)
InsertOrder(d, order) ==
  [orders   |-> InsertIgnore(d.orders, order.OrderUID, OrderRow(order)),
   delivery |-> InsertIgnore(d.delivery, order.OrderUID, order.Delivery),
   payment  |-> InsertIgnore(d.payment, order.OrderUID, order.Payment),
   items    |-> InsertItems(d.items, order.OrderUID, order.Items, 1)]

(* the statements InsertOrder executes between Begin and Commit *)
TxSteps(order) == 3 + Len(order.Items)

(* statements whose item rows get a serial key, so that no item conflicts  *)
TxWrite_serialItems(view, order, k) ==
  CASE k = 1 ->
         [view EXCEPT !.orders =
            InsertIgnore(@, order.OrderUID, OrderRow(order))]
    [] k = 2 ->
         [view EXCEPT !.delivery =
            InsertIgnore(@, order.OrderUID, order.Delivery)]
    [] k = 3 ->
         [view EXCEPT !.payment =
            InsertIgnore(@, order.OrderUID, order.Payment)]
    [] OTHER ->
         [view EXCEPT !.items =
            InsertIgnore(@, <<order.OrderUID, Cardinality(DOMAIN @) + 1>>,
                         order.Items[k - 3])]

(* the k-th statement of InsertOrder applied to the tables the             *)
(* transaction sees                                                        *)
TxWrite(view, order, k) ==
  CASE k = 1 ->
         [view EXCEPT !.orders =
            InsertIgnore(@, order.OrderUID, OrderRow(order))]
    [] k = 2 ->
         [view EXCEPT !.delivery =
            InsertIgnore(@, order.OrderUID, order.Delivery)]
    [] k = 3 ->
         [view EXCEPT !.payment =
            InsertIgnore(@, order.OrderUID, order.Payment)]
    [] OTHER ->
         [view EXCEPT !.items =
            InsertIgnore(@, <<order.OrderUID, order.Items[k - 3].ChrtID>>,
                         order.Items[k - 3])]

RECURSIVE SortedSeq(_)
SortedSeq(S) ==
  IF S = {} THEN <<>>
  ELSE LET m == CHOOSE x \in S : \A y \in S : x <= y
       IN <<m>> \o SortedSeq(S \ {m})

(* the order the two SELECTs put together for one order_uid; the item rows *)
(* are taken by ascending chrt_id                                          *)
Assemble(d, uid) ==
  LET r == d.orders[uid]
      chrts == SortedSeq({k[2] : k \in {q \in DOMAIN d.items : q[1] = uid}})
  IN [OrderUID |-> r.order_uid, TrackNumber |-> r.track_number,
      Entry |-> r.entry, Locale |-> r.locale,
      InternalSignature |-> r.internal_signature,
      CustomerID |-> r.customer_id, DeliveryService |-> r.delivery_service,
      Shardkey |-> r.shardkey, SmID |-> r.sm_id,
      DateCreated |-> r.date_created, OofShard |-> r.oof_shard,
      Delivery |-> IF uid \in DOMAIN d.delivery THEN d.delivery[uid]
                   ELSE ZeroOrder.Delivery,
      Payment |-> IF uid \in DOMAIN d.payment THEN d.payment[uid]
                  ELSE ZeroOrder.Payment,
      Items |-> [i \in 1..Len(chrts) |-> d.items[<<uid, chrts[i]>>]]]

(* GetOrderByUID: the row of the first SELECT; scanning fails when the     *)
(* order has no row, or a joined column is NULL                            *)
OrderFound(d, uid) ==
  /\ uid \in DOMAIN d.orders
  /\ uid \in DOMAIN d.delivery
  /\ uid \in DOMAIN d.payment

OrderHeader(d, uid) == [Assemble(d, uid) EXCEPT !.Items = <<>>]

(* GetOrderByUID: the rows of the second SELECT *)
OrderItems(d, uid) == Assemble(d, uid).Items

Perms(S) ==
  {q \in [1..Cardinality(S) -> S] : \A x \in S : \E i \in DOMAIN q : q[i] = x}

(* the slices GetAllOrders may return: it ranges over a Go map, so the     *)
(* orders come in any order                                                *)
GetAllOrders(d) ==
  {[i \in DOMAIN q |-> Assemble(d, q[i])] : q \in Perms(DOMAIN d.orders)}

(* ---------------------------------------------------------------------- *)
(* internal/consumer                                                       *)
(* ---------------------------------------------------------------------- *)
Partitions == {0}

Times == {0, 100}

(* payloads on the topic: bytes that are not JSON, and JSON documents *)
Garbage == [json |-> FALSE]
Doc(o) == [json |-> TRUE, doc |-> o]

BadOrder == [MkOrder("A", 1) EXCEPT !.Payment.Amount = 0]

Payloads == {Garbage, Doc(BadOrder), Doc(MkOrder("A", 2))}

(* json.Unmarshal(message.Value, &order) *)
Unmarshal(value) ==
  IF value.json THEN [err |-> FALSE, order |-> value.doc]
  ELSE [err |-> TRUE, order |-> ZeroOrder]

RECURSIVE BadItem(_, _)
BadItem(items, i) ==
  IF i > Len(items) THEN 0
  ELSE LET item == items[i] IN
       IF \/ item.ChrtID = 0 \/ item.TrackNumber = "" \/ item.Price <= 0
          \/ item.Rid = "" \/ item.Name = "" \/ item.Sale < 0
          \/ item.Size = "" \/ item.TotalPrice <= 0 \/ item.NmID = 0
          \/ item.Brand = "" \/ item.Status <= 0
       THEN i
       ELSE BadItem(items, i + 1)

(* a validator that does not look at the custom fee *)
validateOrder_feeUnchecked(order, t) ==
  LET now == t + 60 IN
  IF order.DateCreated > now THEN "date_created is in the future"
  ELSE IF order.OrderUID = "" THEN "missing order_uid"
  ELSE IF order.TrackNumber = "" THEN "missing track_number"
  ELSE IF order.Entry = "" THEN "missing entry"
  ELSE IF order.Locale = "" THEN "missing locale"
  ELSE IF order.CustomerID = "" THEN "missing customer_id"
  ELSE IF order.DeliveryService = "" THEN "missing delivery_service"
  ELSE IF order.Shardkey = "" THEN "missing shardkey"
  ELSE IF order.OofShard = "" THEN "missing oof_shard"
  ELSE IF \/ order.Delivery.Name = "" \/ order.Delivery.Phone = ""
          \/ order.Delivery.Zip = "" \/ order.Delivery.City = ""
          \/ order.Delivery.Address = "" \/ order.Delivery.Region = ""
          \/ order.Delivery.Email = ""
       THEN "missing fields in delivery"
  ELSE IF \/ order.Payment.Transaction = "" \/ order.Payment.Currency = ""
          \/ order.Payment.Provider = "" \/ order.Payment.Bank = ""
       THEN "missing fields in payment"
  ELSE IF \/ order.Payment.Amount <= 0 \/ order.Payment.PaymentDt <= 0
          \/ order.Payment.DeliveryCost < 0 \/ order.Payment.GoodsTotal <= 0
       THEN "invalid numeric values in payment"
  ELSE IF Len(order.Items) = 0 THEN "no items"
  ELSE IF BadItem(order.Items, 1) # 0
       THEN "missing/invalid fields in item #"
              \o ToString(BadItem(order.Items, 1))
  ELSE ""

(* the error validateOrder returns at time t; "" is nil *)
validateOrder(order, t) ==
  LET now == t + 60 IN
  IF order.DateCreated > now THEN "date_created is in the future"
  ELSE IF order.OrderUID = "" THEN "missing order_uid"
  ELSE IF order.TrackNumber = "" THEN "missing track_number"
  ELSE IF order.Entry = "" THEN "missing entry"
  ELSE IF order.Locale = "" THEN "missing locale"
  ELSE IF order.CustomerID = "" THEN "missing customer_id"
  ELSE IF order.DeliveryService = "" THEN "missing delivery_service"
  ELSE IF order.Shardkey = "" THEN "missing shardkey"
  ELSE IF order.OofShard = "" THEN "missing oof_shard"
  ELSE IF \/ order.Delivery.Name = "" \/ order.Delivery.Phone = ""
          \/ order.Delivery.Zip = "" \/ order.Delivery.City = ""
          \/ order.Delivery.Address = "" \/ order.Delivery.Region = ""
          \/ order.Delivery.Email = ""
       THEN "missing fields in delivery"
  ELSE IF \/ order.Payment.Transaction = "" \/ order.Payment.Currency = ""
          \/ order.Payment.Provider = "" \/ order.Payment.Bank = ""
       THEN "missing fields in payment"
  ELSE IF \/ order.Payment.Amount <= 0 \/ order.Payment.PaymentDt <= 0
          \/ order.Payment.DeliveryCost < 0 \/ order.Payment.GoodsTotal <= 0
          \/ order.Payment.CustomFee < 0
       THEN "invalid numeric values in payment"
  ELSE IF Len(order.Items) = 0 THEN "no items"
  ELSE IF BadItem(order.Items, 1) # 0
       THEN "missing/invalid fields in item #"
              \o ToString(BadItem(order.Items, 1))
  ELSE ""

(* a Consumer as New returns it: no goroutine, stopChan open, wg at zero,   *)
(* the group client open, and nobody in Close                              *)
NoWorker ==
  [pc |-> "idle", closing |-> FALSE, stopChan |-> "open", wg |-> 0,
   client |-> "open", close |-> "idle"]

(* no transaction open *)
NoTx == [step |-> 0, view |-> EmptyDb]

NoClaim ==
  [pc |-> "off", next |-> 0, off |-> 0, order |-> ZeroOrder, err |-> "",
   ups |-> 0, sets |-> 0, tx |-> NoTx]

(* session.MarkMessage: the group resumes after the message, never earlier *)
MarkMessage(m, p, off) ==
  [m EXCEPT ![p] = IF off + 1 > @ THEN off + 1 ELSE @]

(* ---------------------------------------------------------------------- *)
(* internal/handler and the routes of cmd/server                           *)
(* ---------------------------------------------------------------------- *)
Handlers == {1}

Queries == {"", "A", "C"}
Paths == {"/order", "/order/"}
Requests == [query : Queries, path : Paths]

(* http.HandleFunc("/order", ...) matches that path only; http.Handle("/") *)
(* takes every other path                                                  *)
Mux(path) == IF path = "/order" THEN "GetOrder" ELSE "FileServer"

(* strings.TrimPrefix *)
TrimPrefix(str, prefix) ==
  IF Len(str) >= Len(prefix) /\ SubSeq(str, 1, Len(prefix)) = prefix
  THEN SubSeq(str, Len(prefix) + 1, Len(str))
  ELSE str

(* the uid GetOrder works with *)
RequestUID(req) ==
  IF req.query = "" THEN TrimPrefix(req.path, "/order/") ELSE req.query

StatusOK == 200
StatusBadRequest == 400
StatusNotFound == 404

NoRequest ==
  [pc |-> "idle", query |-> "", path |-> "", uid |-> "", order |-> NilOrder,
   status |-> 0, err |-> "", gets |-> 0, fetches |-> 0, sets |-> 0]

(* ---------------------------------------------------------------------- *)
(* Concurrent callers: each call takes c.mu, runs its statements one at a  *)
(* time and releases c.mu on return                                        *)
(* ---------------------------------------------------------------------- *)
Threads == {1, 2}

ConcOrders == {MkOrder(k, 1) : k \in Keys}
ConcRestoreInputs == RestoreSlices(SeqsUpTo(Keys, 2))

NoCall ==
  [pc |-> "idle", op |-> "none", uid |-> "", order |-> NilOrder,
   os |-> <<>>, i |-> 0, ok |-> FALSE, ret |-> NilOrder, n |-> 0,
   snap |-> New(0)]

MuFree == [w |-> 0, r |-> {}]

(* Get taking the read lock, as a call that only looks up would *)
LockMode_getShared(op) == IF op \in {"Size", "Get"} THEN "R" ELSE "W"

(* Size takes the read lock, every other call the write lock *)
LockMode(op) == IF op = "Size" THEN "R" ELSE "W"

Call(t) ==
  /\ th[t].pc = "idle"
  /\ \/ \E uid \in Keys :
          th' = [th EXCEPT ![t] = [NoCall EXCEPT !.pc = "lock", !.op = "Get",
                                                 !.uid = uid]]
     \/ \E o \in ConcOrders :
          th' = [th EXCEPT ![t] = [NoCall EXCEPT !.pc = "lock", !.op = "Set",
                                                 !.order = o,
                                                 !.uid = o.OrderUID]]
     \/ \E os \in ConcRestoreInputs :
          th' = [th EXCEPT ![t] = [NoCall EXCEPT !.pc = "lock",
                                                 !.op = "Restore",
                                                 !.os = os, !.i = 1]]
     \/ th' = [th EXCEPT ![t] = [NoCall EXCEPT !.pc = "lock", !.op = "Size"]]
  /\ UNCHANGED <<cache, mu>>

FirstPc(op) ==
  CASE op = "Get" -> "Get_lookup"
    [] op = "Set" -> "Set_exists"
    [] op = "Restore" -> "Restore_clear"
    [] op = "Size" -> "Size_len"

(* c.mu.Lock() / c.mu.RLock() *)
Lock(t) ==
  /\ th[t].pc = "lock"
  /\ IF LockMode(th[t].op) = "W"
     THEN /\ mu.w = 0 /\ mu.r = {}
          /\ mu' = [mu EXCEPT !.w = t]
     ELSE /\ mu.w = 0
          /\ mu' = [mu EXCEPT !.r = @ \cup {t}]
  /\ th' = [th EXCEPT ![t].pc = FirstPc(th[t].op), ![t].snap = cache]
  /\ UNCHANGED cache

(* order, ok := c.orders[uid] *)
GetLookup(t) ==
  /\ th[t].pc = "Get_lookup"
  /\ LET ok == th[t].uid \in DOMAIN cache.orders IN
     th' = [th EXCEPT ![t].ok = ok,
                      ![t].ret = IF ok THEN cache.orders[th[t].uid]
                                 ELSE NilOrder,
                      ![t].pc = IF ok THEN "Get_update" ELSE "unlock"]
  /\ UNCHANGED <<cache, mu>>

GetUpdate(t) ==
  /\ th[t].pc = "Get_update"
  /\ cache' = updateLRU(cache, th[t].uid)
  /\ th' = [th EXCEPT ![t].pc = "unlock"]
  /\ UNCHANGED mu

SetExists(t) ==
  /\ th[t].pc = "Set_exists"
  /\ th' = [th EXCEPT ![t].pc = IF th[t].uid \in DOMAIN cache.orders
                                THEN "Set_update"
                                ELSE IF Cardinality(DOMAIN cache.orders)
                                          >= cache.maxSize
                                     THEN "Set_evict" ELSE "Set_put"]
  /\ UNCHANGED <<cache, mu>>

SetUpdate(t) ==
  /\ th[t].pc = "Set_update"
  /\ cache' = updateLRU(cache, th[t].uid)
  /\ th' = [th EXCEPT ![t].pc = "Set_assign"]
  /\ UNCHANGED mu

SetAssign(t) ==
  /\ th[t].pc = "Set_assign"
  /\ cache' = [cache EXCEPT !.orders = (th[t].uid :> th[t].order) @@ @]
  /\ th' = [th EXCEPT ![t].pc = "unlock"]
  /\ UNCHANGED mu

SetEvict(t) ==
  /\ th[t].pc = "Set_evict"
  /\ cache' = evictLRU(cache)
  /\ th' = [th EXCEPT ![t].pc = "Set_put"]
  /\ UNCHANGED mu

SetPut(t) ==
  /\ th[t].pc = "Set_put"
  /\ cache' = [cache EXCEPT !.orders = (th[t].uid :> th[t].order) @@ @]
  /\ th' = [th EXCEPT ![t].pc = "Set_add"]
  /\ UNCHANGED mu

SetAdd(t) ==
  /\ th[t].pc = "Set_add"
  /\ cache' = addToLRU(cache, th[t].uid)
  /\ th' = [th EXCEPT ![t].pc = "unlock"]
  /\ UNCHANGED mu

(* the two maps are replaced, then the list is cut loose *)
RestoreClear(t) ==
  /\ th[t].pc = "Restore_clear"
  /\ cache' = [cache EXCEPT !.orders = <<>>, !.nodeMap = <<>>]
  /\ th' = [th EXCEPT ![t].pc = "Restore_clearList"]
  /\ UNCHANGED mu

RestoreClearList(t) ==
  /\ th[t].pc = "Restore_clearList"
  /\ cache' = [cache EXCEPT !.lruHead = Nil, !.lruTail = Nil, !.nodes = <<>>]
  /\ th' = [th EXCEPT ![t].pc = IF th[t].i > Len(th[t].os)
                                THEN "unlock" ELSE "Restore_put"]
  /\ UNCHANGED mu

RestorePut(t) ==
  /\ th[t].pc = "Restore_put"
  /\ LET o == th[t].os[th[t].i] IN
     cache' = [cache EXCEPT !.orders = (o.OrderUID :> o) @@ @]
  /\ th' = [th EXCEPT ![t].pc = "Restore_add"]
  /\ UNCHANGED mu

(* addToLRU, then the capacity test that ends or continues the loop *)
RestoreAdd(t) ==
  /\ th[t].pc = "Restore_add"
  /\ cache' = addToLRU(cache, th[t].os[th[t].i].OrderUID)
  /\ th' = [th EXCEPT
              ![t].i = @ + 1,
              ![t].pc = IF \/ Cardinality(DOMAIN cache.orders) >= cache.maxSize
                           \/ th[t].i + 1 > Len(th[t].os)
                        THEN "unlock" ELSE "Restore_put"]
  /\ UNCHANGED mu

SizeLen(t) ==
  /\ th[t].pc = "Size_len"
  /\ th' = [th EXCEPT ![t].n = Cardinality(DOMAIN cache.orders),
                      ![t].pc = "unlock"]
  /\ UNCHANGED <<cache, mu>>

(* the deferred c.mu.Unlock() / c.mu.RUnlock(); the call returns *)
Unlock(t) ==
  /\ th[t].pc = "unlock"
  /\ mu' = IF LockMode(th[t].op) = "W"
           THEN [mu EXCEPT !.w = 0]
           ELSE [mu EXCEPT !.r = @ \ {t}]
  /\ th' = [th EXCEPT ![t] = NoCall]
  /\ cache' = IF mu'.w = 0 /\ mu'.r = {} THEN Compact(cache) ELSE cache

ThreadStep(t) ==
  \/ Call(t) \/ Lock(t) \/ Unlock(t)
  \/ GetLookup(t) \/ GetUpdate(t)
  \/ SetExists(t) \/ SetUpdate(t) \/ SetAssign(t)
  \/ SetEvict(t) \/ SetPut(t) \/ SetAdd(t)
  \/ RestoreClear(t) \/ RestoreClearList(t) \/ RestorePut(t) \/ RestoreAdd(t)
  \/ SizeLen(t)

ConcIdle ==
  /\ mu = MuFree
  /\ th = [t \in Threads |-> NoCall]

PipeIdle ==
  /\ db = EmptyDb
  /\ log = [p \in Partitions |-> <<>>]
  /\ marked = [p \in Partitions |-> 1]
  /\ main = "off"
  /\ wk = NoWorker
  /\ claim = [p \in Partitions |-> NoClaim]
  /\ failed = [p \in Partitions |-> {}]
  /\ done = [p \in Partitions |-> {}]
  /\ rq = [h \in Handlers |-> NoRequest]

InitCache ==
  /\ \E cap \in Caps : cache = New(cap)
  /\ touched = <<>>
  /\ written = <<>>
  /\ last = [op |-> "New"]
  /\ ConcIdle
  /\ PipeIdle

NextCache ==
  /\ CacheGet \/ CacheSet \/ CacheRestore \/ CacheSize
  /\ UNCHANGED <<concVars, pipeVars>>

SpecCache == InitCache /\ [][NextCache]_vars

InitConc == InitCache

NextConc ==
  /\ \E t \in Threads : ThreadStep(t)
  /\ UNCHANGED <<touched, written, last, pipeVars>>

SpecConc == InitConc /\ [][NextConc]_vars

(* ---------------------------------------------------------------------- *)
(* validateOrder called on one order at one time                           *)
(* ---------------------------------------------------------------------- *)
(* an order validateOrder accepts, with two items *)
GoodOrder == [MkOrder("A", 1) EXCEPT !.Items = <<MkItem(1), MkItem(2)>>]

OrderStrings ==
  {"OrderUID", "TrackNumber", "Entry", "Locale", "InternalSignature",
   "CustomerID", "DeliveryService", "Shardkey", "OofShard"}
DeliveryStrings ==
  {"Name", "Phone", "Zip", "City", "Address", "Region", "Email"}
PaymentStrings ==
  {"Transaction", "RequestID", "Currency", "Provider", "Bank"}
PaymentNumbers ==
  {"Amount", "PaymentDt", "DeliveryCost", "GoodsTotal", "CustomFee"}
ItemStrings == {"TrackNumber", "Rid", "Name", "Size", "Brand"}
ItemNumbers ==
  {"ChrtID", "Price", "Sale", "TotalPrice", "NmID", "Status"}
Numbers == {-1, 0, 1}
Dates == {0, 60, 61, 160, 161}

(* GoodOrder with one field changed, or its creation date, or no items *)
ValidatorInputs ==
  {[GoodOrder EXCEPT ![f] = ""] : f \in OrderStrings}
    \cup {[GoodOrder EXCEPT !.Delivery[f] = ""] : f \in DeliveryStrings}
    \cup {[GoodOrder EXCEPT !.Payment[f] = ""] : f \in PaymentStrings}
    \cup {[GoodOrder EXCEPT !.Payment[f] = x] :
            f \in PaymentNumbers, x \in Numbers}
    \cup {[GoodOrder EXCEPT !.Items[i][f] = ""] :
            i \in 1..2, f \in ItemStrings}
    \cup {[GoodOrder EXCEPT !.Items[i][f] = x] :
            i \in 1..2, f \in ItemNumbers, x \in Numbers}
    \cup {[GoodOrder EXCEPT !.DateCreated = d] : d \in Dates}
    \cup {[GoodOrder EXCEPT !.Items = <<>>]}

InitValidate ==
  /\ cache = New(1)
  /\ touched = <<>>
  /\ written = <<>>
  /\ \E o \in ValidatorInputs, t \in Times :
       last = [op |-> "validateOrder", order |-> o, now |-> t,
               called |-> FALSE, err |-> ""]
  /\ ConcIdle
  /\ PipeIdle

(* err := validateOrder(&order) *)
CallValidate ==
  /\ last.op = "validateOrder"
  /\ ~last.called
  /\ last' = [last EXCEPT !.called = TRUE,
                          !.err = validateOrder(last.order, last.now)]
  /\ UNCHANGED <<cache, touched, written, concVars, pipeVars>>

NextValidate == CallValidate

SpecValidate == InitValidate /\ [][NextValidate]_vars

(* ---------------------------------------------------------------------- *)
(* cmd/server main, Consumer.Start and ConsumeClaim as actions             *)
(* ---------------------------------------------------------------------- *)
(* a boot that fetches the orders and does not restore the cache from them *)
MainRestore_noRestore ==
  /\ main = "boot"
  /\ GetAllOrders(db) # {}
  /\ main' = "new"
  /\ UNCHANGED <<cacheVars, concVars, db, log, marked, wk, claim, failed,
                 done, rq>>

(* database.GetAllOrders() succeeds and cache.Restore(orders) runs *)
MainRestore ==
  /\ main = "boot"
  /\ \E os \in GetAllOrders(db) : CallRestore(os)
  /\ main' = "new"
  /\ UNCHANGED <<concVars, db, log, marked, wk, claim, failed, done, rq>>

(* database.GetAllOrders() fails: logger.Fatal ends the process *)
MainRestoreFatal ==
  /\ main = "boot"
  /\ main' = "fatal"
  /\ UNCHANGED <<cacheVars, concVars, db, log, marked, wk, claim, failed, done, rq>>

(* Consumer.Start: c.wg.Add(1) and the goroutine of the consume loop *)
Start(w) == [w EXCEPT !.pc = "consume", !.wg = @ + 1]

(* consumer.New succeeds and go consumer.Start() *)
MainStart ==
  /\ main = "new"
  /\ main' = "serve"
  /\ wk' = Start(wk)
  /\ UNCHANGED <<cacheVars, concVars, db, log, marked, claim, failed, done, rq>>

(* consumer.New fails: logger.Fatal ends the process *)
MainStartFatal ==
  /\ main = "new"
  /\ main' = "fatal"
  /\ UNCHANGED <<cacheVars, concVars, db, log, marked, wk, claim, failed, done, rq>>

(* the producer sends one more payload to a partition *)
Produce(p) ==
  /\ Len(log[p]) < MaxLog
  /\ \E v \in Payloads : log' = [log EXCEPT ![p] = Append(@, v)]
  /\ UNCHANGED <<cacheVars, concVars, db, marked, main, wk, claim, failed, done, rq>>

(* where a session starts to read: the marked offset, or the end of the    *)
(* partition when the group has none (Offsets.Initial = OffsetNewest)      *)
StartOffset(p) == IF marked[p] = 0 THEN Len(log[p]) + 1 ELSE marked[p]

(* c.consumer.Consume(...) opens a session with a claim per partition *)
Consume ==
  /\ wk.pc = "consume"
  /\ wk' = [wk EXCEPT !.pc = "session", !.closing = FALSE]
  /\ claim' = [p \in Partitions |->
                 [NoClaim EXCEPT !.pc = "recv", !.next = StartOffset(p)]]
  /\ UNCHANGED <<cacheVars, concVars, db, log, marked, main, failed, done, rq>>

(* for message := range claim.Messages() *)
Receive(p) ==
  /\ wk.pc = "session"
  /\ ~wk.closing
  /\ claim[p].pc = "recv"
  /\ claim[p].next <= Len(log[p])
  /\ claim' = [claim EXCEPT ![p] =
                 [NoClaim EXCEPT !.pc = "decode", !.off = claim[p].next,
                                 !.next = claim[p].next + 1]]
  /\ failed' = [failed EXCEPT ![p] = @ \ {claim[p].next}]
  /\ UNCHANGED <<cacheVars, concVars, db, log, marked, main, wk, done, rq>>

Decode(p) ==
  /\ claim[p].pc = "decode"
  /\ LET u == Unmarshal(log[p][claim[p].off]) IN
     IF u.err
     THEN /\ marked' = MarkMessage(marked, p, claim[p].off)
          /\ claim' = [claim EXCEPT ![p].pc = "recv",
                                    ![p].err = "unmarshal"]
     ELSE /\ marked' = marked
          /\ claim' = [claim EXCEPT ![p].pc = "validate",
                                    ![p].order = u.order]
  /\ UNCHANGED <<cacheVars, concVars, db, log, main, wk, failed, done, rq>>

(* Validate that logs the rejection and goes on to the insert *)
Validate_noContinue(p) ==
  /\ claim[p].pc = "validate"
  /\ \E t \in Times :
       claim' = [claim EXCEPT ![p].pc = "insert",
                              ![p].err = validateOrder(claim[p].order, t)]
  /\ UNCHANGED <<cacheVars, concVars, db, log, marked, main, wk, failed, done, rq>>

Validate(p) ==
  /\ claim[p].pc = "validate"
  /\ \E t \in Times :
       LET e == validateOrder(claim[p].order, t) IN
       IF e # ""
       THEN /\ marked' = MarkMessage(marked, p, claim[p].off)
            /\ claim' = [claim EXCEPT ![p].pc = "recv", ![p].err = e]
       ELSE /\ marked' = marked
            /\ claim' = [claim EXCEPT ![p].pc = "insert"]
  /\ UNCHANGED <<cacheVars, concVars, db, log, main, wk, failed, done, rq>>

(* a loop that goes on to cache.Set without calling InsertOrder *)
InsertBegin_skip(p) ==
  /\ claim[p].pc = "insert"
  /\ claim' = [claim EXCEPT ![p].pc = "set"]
  /\ UNCHANGED <<cacheVars, concVars, db, log, marked, main, wk, failed,
                 done, rq>>

(* h.db.InsertOrder(&order): db.pool.Begin opens the transaction *)
InsertBegin(p) ==
  /\ claim[p].pc = "insert"
  /\ claim' = [claim EXCEPT ![p].pc = "tx", ![p].ups = @ + 1,
                            ![p].tx = [step |-> 1, view |-> db]]
  /\ UNCHANGED <<cacheVars, concVars, db, log, marked, main, wk, failed,
                 done, rq>>

(* the next tx.Exec of InsertOrder: its row is seen by the transaction only *)
InsertExec(p) ==
  /\ claim[p].pc = "tx"
  /\ claim[p].tx.step <= TxSteps(claim[p].order)
  /\ claim' = [claim EXCEPT
                 ![p].tx = [step |-> @.step + 1,
                            view |-> TxWrite(@.view, claim[p].order, @.step)]]
  /\ UNCHANGED <<cacheVars, concVars, db, log, marked, main, wk, failed,
                 done, rq>>

(* an InsertOrder that returns nil without committing *)
InsertOk_noCommit(p) ==
  /\ claim[p].pc = "tx"
  /\ claim[p].tx.step = TxSteps(claim[p].order) + 1
  /\ claim' = [claim EXCEPT ![p].pc = "set", ![p].tx = NoTx]
  /\ UNCHANGED <<cacheVars, concVars, db, log, marked, main, wk, failed,
                 done, rq>>

(* tx.Commit succeeds and InsertOrder returns nil *)
InsertOk(p) ==
  /\ claim[p].pc = "tx"
  /\ claim[p].tx.step = TxSteps(claim[p].order) + 1
  /\ db' = claim[p].tx.view
  /\ claim' = [claim EXCEPT ![p].pc = "set", ![p].tx = NoTx]
  /\ UNCHANGED <<cacheVars, concVars, log, marked, main, wk, failed, done, rq>>

(* a failed statement that keeps what the transaction wrote so far *)
InsertFail_noRollback(p) ==
  /\ claim[p].pc \in {"insert", "tx"}
  /\ db' = IF claim[p].pc = "tx" THEN claim[p].tx.view ELSE db
  /\ claim' = [claim EXCEPT ![p].pc = "recv", ![p].tx = NoTx,
                            ![p].ups = IF claim[p].pc = "insert"
                                       THEN @ + 1 ELSE @]
  /\ failed' = [failed EXCEPT ![p] = @ \cup {claim[p].off}]
  /\ UNCHANGED <<cacheVars, concVars, log, marked, main, wk, done, rq>>

(* h.db.InsertOrder(&order) returns an error (Begin, an Exec or Commit     *)
(* failed): the transaction is rolled back and the loop continues with the *)
(* next message                                                            *)
InsertFail(p) ==
  /\ claim[p].pc \in {"insert", "tx"}
  /\ claim' = [claim EXCEPT ![p].pc = "recv", ![p].tx = NoTx,
                            ![p].ups = IF claim[p].pc = "insert"
                                       THEN @ + 1 ELSE @]
  /\ failed' = [failed EXCEPT ![p] = @ \cup {claim[p].off}]
  /\ UNCHANGED <<cacheVars, concVars, db, log, marked, main, wk, done, rq>>

(* h.cache.Set(&order) *)
SetCache(p) ==
  /\ claim[p].pc = "set"
  /\ CallSet(claim[p].order)
  /\ claim' = [claim EXCEPT ![p].pc = "mark", ![p].sets = @ + 1]
  /\ done' = [done EXCEPT ![p] = @ \cup {claim[p].off}]
  /\ UNCHANGED <<concVars, db, log, marked, main, wk, failed, rq>>

(* session.MarkMessage(message, "") after a processed order *)
Mark(p) ==
  /\ claim[p].pc = "mark"
  /\ marked' = MarkMessage(marked, p, claim[p].off)
  /\ claim' = [claim EXCEPT ![p].pc = "recv"]
  /\ UNCHANGED <<cacheVars, concVars, db, log, main, wk, failed, done, rq>>

(* a rebalance or an error ends the session: the claims' channels close *)
EndSession ==
  /\ wk.pc = "session"
  /\ ~wk.closing
  /\ wk' = [wk EXCEPT !.closing = TRUE]
  /\ UNCHANGED <<cacheVars, concVars, db, log, marked, main, claim, failed, done, rq>>

(* the range over claim.Messages() ends and ConsumeClaim returns nil *)
ClaimExit(p) ==
  /\ wk.closing
  /\ claim[p].pc = "recv"
  /\ claim' = [claim EXCEPT ![p] = NoClaim]
  /\ UNCHANGED <<cacheVars, concVars, db, log, marked, main, wk, failed, done, rq>>

(* a Consume that returns while claims are still at work *)
ConsumeReturn_abandon ==
  /\ wk.pc = "session"
  /\ wk.closing
  /\ wk' = [wk EXCEPT !.pc = "select", !.closing = FALSE]
  /\ claim' = [p \in Partitions |-> NoClaim]
  /\ UNCHANGED <<cacheVars, concVars, db, log, marked, main, failed, done, rq>>

(* Consume returns once every ConsumeClaim of the session has returned *)
ConsumeReturn ==
  /\ wk.pc = "session"
  /\ wk.closing
  /\ \A p \in Partitions : claim[p].pc = "off"
  /\ wk' = [wk EXCEPT !.pc = "select", !.closing = FALSE]
  /\ UNCHANGED <<cacheVars, concVars, db, log, marked, main, claim, failed, done, rq>>

(* select on stopChan: return (the deferred wg.Done runs) when it is       *)
(* closed, else the default case and the loop calls Consume again          *)
WorkerSelect ==
  /\ wk.pc = "select"
  /\ wk' = IF wk.stopChan = "closed"
           THEN [wk EXCEPT !.pc = "exited", !.wg = @ - 1]
           ELSE [wk EXCEPT !.pc = "consume"]
  /\ UNCHANGED <<cacheVars, concVars, db, log, marked, main, claim, failed, done, rq>>

(* ---------------------------------------------------------------------- *)
(* Handler.GetOrder, one action per call it makes                          *)
(* ---------------------------------------------------------------------- *)
Respond(r, status, order) ==
  [r EXCEPT !.pc = "done", !.status = status, !.order = order]

(* a request routed to GetOrder: the uid is read, an empty one is answered *)
(* with StatusBadRequest                                                   *)
HandlerStart(h) ==
  /\ main = "serve"
  /\ rq[h].pc = "idle"
  /\ \E req \in Requests :
       /\ Mux(req.path) = "GetOrder"
       /\ LET r == [NoRequest EXCEPT !.query = req.query, !.path = req.path,
                                     !.uid = RequestUID(req)]
          IN rq' = [rq EXCEPT ![h] =
                      IF r.uid = "" THEN Respond(r, StatusBadRequest, NilOrder)
                      ELSE [r EXCEPT !.pc = "get"]]
  /\ UNCHANGED <<cacheVars, concVars, db, log, marked, main, wk, claim,
                 failed, done>>

(* a request routed to the file server of ./web, which holds no orders *)
ServeFile(h) ==
  /\ main = "serve"
  /\ rq[h].pc = "idle"
  /\ \E req \in Requests :
       /\ Mux(req.path) = "FileServer"
       /\ rq' = [rq EXCEPT ![h] =
                   Respond([NoRequest EXCEPT !.query = req.query,
                                             !.path = req.path],
                           StatusNotFound, NilOrder)]
  /\ UNCHANGED <<cacheVars, concVars, db, log, marked, main, wk, claim,
                 failed, done>>

(* order, found := h.cache.Get(uid) *)
HandlerGet(h) ==
  /\ rq[h].pc = "get"
  /\ \E r \in {Get(cache, rq[h].uid)} :
       /\ CallGet(rq[h].uid, r)
       /\ rq' = [rq EXCEPT ![h] =
                   IF r.ok
                   THEN Respond([@ EXCEPT !.gets = @ + 1], StatusOK, r.order)
                   ELSE [@ EXCEPT !.pc = "fetch", !.gets = @ + 1]]
  /\ UNCHANGED <<concVars, db, log, marked, main, wk, claim, failed, done>>

(* a GetOrder that does not look at the error of GetOrderByUID *)
HandlerFetchRow_noErrCheck(h) ==
  /\ rq[h].pc = "fetch"
  /\ rq' = [rq EXCEPT ![h] =
              IF OrderFound(db, rq[h].uid)
              THEN [@ EXCEPT !.pc = "items", !.fetches = @ + 1,
                             !.order = OrderHeader(db, rq[h].uid)]
              ELSE [@ EXCEPT !.pc = "set", !.fetches = @ + 1,
                             !.order = ZeroOrder]]
  /\ UNCHANGED <<cacheVars, concVars, db, log, marked, main, wk, claim,
                 failed, done>>

(* h.db.GetOrderByUID(uid): the SELECT of the order row *)
HandlerFetchRow(h) ==
  /\ rq[h].pc = "fetch"
  /\ rq' = [rq EXCEPT ![h] =
              IF OrderFound(db, rq[h].uid)
              THEN [@ EXCEPT !.pc = "items", !.fetches = @ + 1,
                             !.order = OrderHeader(db, rq[h].uid)]
              ELSE Respond([@ EXCEPT !.fetches = @ + 1,
                                     !.err = "order not found"],
                           StatusNotFound, NilOrder)]
  /\ UNCHANGED <<cacheVars, concVars, db, log, marked, main, wk, claim,
                 failed, done>>

(* h.db.GetOrderByUID(uid): the SELECT of the item rows *)
HandlerFetchItems(h) ==
  /\ rq[h].pc = "items"
  /\ rq' = [rq EXCEPT ![h] =
              [@ EXCEPT !.pc = "set",
                        !.order = [@ EXCEPT !.Items =
                                     OrderItems(db, rq[h].uid)]]]
  /\ UNCHANGED <<cacheVars, concVars, db, log, marked, main, wk, claim,
                 failed, done>>

(* h.db.GetOrderByUID(uid) returns an error of the store *)
HandlerFetchFail(h) ==
  /\ rq[h].pc \in {"fetch", "items"}
  /\ rq' = [rq EXCEPT ![h] =
              Respond([@ EXCEPT !.fetches = IF @ = 0 THEN 1 ELSE @,
                                !.err = IF rq[h].pc = "fetch"
                                        THEN "query order error"
                                        ELSE "query items error"],
                      StatusNotFound, NilOrder)]
  /\ UNCHANGED <<cacheVars, concVars, db, log, marked, main, wk, claim,
                 failed, done>>

(* a GetOrder that answers from the store without the backfill *)
HandlerSet_noBackfill(h) ==
  /\ rq[h].pc = "set"
  /\ rq' = [rq EXCEPT ![h] = Respond(@, StatusOK, rq[h].order)]
  /\ UNCHANGED <<cacheVars, concVars, db, log, marked, main, wk, claim,
                 failed, done>>

(* h.cache.Set(order) and the response is written *)
HandlerSet(h) ==
  /\ rq[h].pc = "set"
  /\ CallSet(rq[h].order)
  /\ rq' = [rq EXCEPT ![h] =
              Respond([@ EXCEPT !.sets = @ + 1], StatusOK, rq[h].order)]
  /\ UNCHANGED <<concVars, db, log, marked, main, wk, claim, failed, done>>

(* GetOrder returns *)
HandlerReturn(h) ==
  /\ rq[h].pc = "done"
  /\ rq' = [rq EXCEPT ![h] = NoRequest]
  /\ UNCHANGED <<cacheVars, concVars, db, log, marked, main, wk, claim,
                 failed, done>>

(* capacities of the service cache: main passes a fixed positive one *)
ServiceCaps == {1, 2}

(* what the store may hold when the process starts *)
InitialDbs ==
  {EmptyDb,
   InsertOrder(InsertOrder(EmptyDb, MkOrder("A", 1)), MkOrder("C", 1))}

Init ==
  /\ \E cap \in ServiceCaps : cache = New(cap)
  /\ touched = <<>>
  /\ written = <<>>
  /\ last = [op |-> "New"]
  /\ ConcIdle
  /\ db \in InitialDbs
  /\ log = [p \in Partitions |-> <<>>]
  /\ marked \in [Partitions -> {0, 1}]
  /\ main = "boot"
  /\ wk = NoWorker
  /\ claim = [p \in Partitions |-> NoClaim]
  /\ failed = [p \in Partitions |-> {}]
  /\ done = [p \in Partitions |-> {}]
  /\ rq = [h \in Handlers |-> NoRequest]

Next ==
  \/ MainRestore \/ MainRestoreFatal \/ MainStart \/ MainStartFatal
  \/ Consume \/ EndSession \/ ConsumeReturn \/ WorkerSelect
  \/ \E p \in Partitions :
       \/ Produce(p) \/ Receive(p) \/ Decode(p) \/ Validate(p)
       \/ InsertBegin(p) \/ InsertExec(p) \/ InsertOk(p) \/ InsertFail(p)
       \/ SetCache(p) \/ Mark(p) \/ ClaimExit(p)
  \/ \E h \in Handlers :
       \/ HandlerStart(h) \/ ServeFile(h) \/ HandlerGet(h)
       \/ HandlerFetchRow(h) \/ HandlerFetchItems(h) \/ HandlerFetchFail(h)
       \/ HandlerSet(h) \/ HandlerReturn(h)

Spec == Init /\ [][Next]_vars

(* the service booted on a store that holds more orders than the cache *)
WarmDb ==
  InsertOrder(InsertOrder(InsertOrder(EmptyDb, MkOrder("A", 1)),
                          MkOrder("B", 1)),
              MkOrder("C", 1))

InitWarm ==
  /\ \E cap \in ServiceCaps : cache = New(cap)
  /\ touched = <<>>
  /\ written = <<>>
  /\ last = [op |-> "New"]
  /\ ConcIdle
  /\ db = WarmDb
  /\ log = [p \in Partitions |-> <<>>]
  /\ marked = [p \in Partitions |-> 1]
  /\ main = "boot"
  /\ wk = NoWorker
  /\ claim = [p \in Partitions |-> NoClaim]
  /\ failed = [p \in Partitions |-> {}]
  /\ done = [p \in Partitions |-> {}]
  /\ rq = [h \in Handlers |-> NoRequest]

SpecWarm == InitWarm /\ [][Next]_vars

(* ---------------------------------------------------------------------- *)
(* A Consumer with a caller that starts it and then closes it              *)
(* ---------------------------------------------------------------------- *)
(* the caller runs c.Start(), which returns with the goroutine launched *)
CallStart ==
  /\ wk.pc = "idle"
  /\ wk.close = "idle"
  /\ wk' = Start(wk)
  /\ UNCHANGED <<cacheVars, concVars, db, log, marked, main, claim, failed,
                 done, rq>>

(* Close: close(c.stopChan) *)
CloseSignal ==
  /\ wk.pc # "idle"
  /\ wk.close = "idle"
  /\ wk' = [wk EXCEPT !.stopChan = "closed", !.close = "wait"]
  /\ UNCHANGED <<cacheVars, concVars, db, log, marked, main, claim, failed,
                 done, rq>>

(* a Close that does not wait for the goroutine *)
CloseWait_noWait ==
  /\ wk.close = "wait"
  /\ wk' = [wk EXCEPT !.close = "client"]
  /\ UNCHANGED <<cacheVars, concVars, db, log, marked, main, claim, failed,
                 done, rq>>

(* Close: c.wg.Wait() returns when the counter is zero *)
CloseWait ==
  /\ wk.close = "wait"
  /\ wk.wg = 0
  /\ wk' = [wk EXCEPT !.close = "client"]
  /\ UNCHANGED <<cacheVars, concVars, db, log, marked, main, claim, failed,
                 done, rq>>

(* Close: return c.consumer.Close(); a session still open would end *)
CloseClient ==
  /\ wk.close = "client"
  /\ wk' = [wk EXCEPT !.client = "closed", !.close = "done",
                      !.closing = (wk.pc = "session")]
  /\ UNCHANGED <<cacheVars, concVars, db, log, marked, main, claim, failed,
                 done, rq>>

(* the steps of the goroutine of Start and of its claims *)
WorkerStep ==
  \/ Consume \/ ConsumeReturn \/ WorkerSelect
  \/ \E p \in Partitions :
       \/ Receive(p) \/ Decode(p) \/ Validate(p)
       \/ InsertBegin(p) \/ InsertExec(p) \/ InsertOk(p) \/ InsertFail(p)
       \/ SetCache(p) \/ Mark(p) \/ ClaimExit(p)

(* the steps of a call of Close *)
CloseStep == CloseSignal \/ CloseWait \/ CloseClient

InitConsumer ==
  /\ cache = New(MaxCap)
  /\ touched = <<>>
  /\ written = <<>>
  /\ last = [op |-> "New"]
  /\ ConcIdle
  /\ db = EmptyDb
  /\ log = [p \in Partitions |-> <<>>]
  /\ marked \in [Partitions -> {0, 1}]
  /\ main = "off"
  /\ wk = NoWorker
  /\ claim = [p \in Partitions |-> NoClaim]
  /\ failed = [p \in Partitions |-> {}]
  /\ done = [p \in Partitions |-> {}]
  /\ rq = [h \in Handlers |-> NoRequest]

NextConsumer ==
  \/ CallStart \/ CloseSignal \/ CloseWait \/ CloseClient
  \/ Consume \/ EndSession \/ ConsumeReturn \/ WorkerSelect
  \/ \E p \in Partitions :
       \/ Produce(p) \/ Receive(p) \/ Decode(p) \/ Validate(p)
       \/ InsertBegin(p) \/ InsertExec(p) \/ InsertOk(p) \/ InsertFail(p)
       \/ SetCache(p) \/ Mark(p) \/ ClaimExit(p)

SpecConsumer == InitConsumer /\ [][NextConsumer]_vars

(* a started Consumer that nobody closes *)
NextIngest ==
  \/ CallStart
  \/ Consume \/ EndSession \/ ConsumeReturn \/ WorkerSelect
  \/ \E p \in Partitions :
       \/ Produce(p) \/ Receive(p) \/ Decode(p) \/ Validate(p)
       \/ InsertBegin(p) \/ InsertExec(p) \/ InsertOk(p) \/ InsertFail(p)
       \/ SetCache(p) \/ Mark(p) \/ ClaimExit(p)

(* the worker is scheduled; sessions end again and again (rebalances), so  *)
(* that the group delivers again from its marked offset; and a session     *)
(* that has a message to deliver is not always ended before it does        *)
SpecIngest ==
  /\ InitConsumer
  /\ [][NextIngest]_vars
  /\ WF_vars(WorkerStep)
  /\ WF_vars(EndSession)
  /\ SF_vars(\E p \in Partitions : Receive(p))

(* the goroutines are scheduled: the worker and the caller inside Close    *)
(* take their next step when they have one. Nothing makes the group        *)
(* rebalance or fail, and nothing makes the producer send.                 *)
SpecShutdown ==
  /\ InitConsumer
  /\ [][NextConsumer]_vars
  /\ WF_vars(WorkerStep)
  /\ WF_vars(CloseStep)

(* ---------------------------------------------------------------------- *)
(* Properties of the cache                                                 *)
(* ---------------------------------------------------------------------- *)
Min(a, b) == IF a < b THEN a ELSE b

(* C1: after any sequence of Get, Set and Restore calls the resident count *)
(* reported by Size lies between 0 and the capacity fixed at construction. *)
C1_SizeWithinCapacity ==
  /\ 0 <= Size(cache)
  /\ Size(cache) <= cache.maxSize

(* C2: a Set of a non-resident identifier on a cache of capacity at least  *)
(* one that holds exactly capacity entries removes exactly one entry, the  *)
(* resident key touched longest ago; a Set below capacity removes nothing. *)
C2_EvictsLeastRecentlyTouched ==
  [][(last'.op = "Set" /\ last'.uid \notin Resident(cache)
        /\ cache.maxSize >= 1)
     => /\ Size(cache) = cache.maxSize
           => /\ touched # <<>>
              /\ Resident(cache')
                   = (Resident(cache) \ {touched[Len(touched)]})
                       \cup {last'.uid}
        /\ Size(cache) < cache.maxSize
           => Resident(cache') = Resident(cache) \cup {last'.uid}
    ]_vars

(* C3: Get of a resident key returns the order last Set or Restored for    *)
(* it, keeps the resident keys (and so the size), puts the key at the head *)
(* of the recency list and keeps the order of the other keys on the list.  *)
C3_GetHit ==
  [][(last'.op = "Get" /\ last'.uid \in Resident(cache))
     => /\ last'.ok
        /\ last'.order = written[last'.uid]
        /\ Resident(cache') = Resident(cache)
        /\ cache'.orders = cache.orders
        /\ HeadKey(cache') = last'.uid
        /\ LRUOrder(cache')[1] = last'.uid
        /\ SelectKeys(ListKeys(cache'), Keys \ {last'.uid})
             = SelectKeys(ListKeys(cache), Keys \ {last'.uid})
    ]_vars

C3_Witness ==
  /\ last.op = "Get"
  /\ last.ok
  /\ last.head # last.uid
  /\ HeadKey(cache) = last.uid
  /\ Size(cache) >= 2

(* C4: Get of a key that is not resident reports absent and leaves the     *)
(* orders map, the node index, the recency list and the size as they were. *)
C4_GetMissNoEffect ==
  [][(last'.op = "Get" /\ last'.uid \notin Resident(cache))
     => /\ ~last'.ok
        /\ last'.order = NilOrder
        /\ cache' = cache
    ]_vars

C4_Witness ==
  /\ last.op = "Get"
  /\ ~last.ok
  /\ Size(cache) >= 1

(* C5: Set of an identifier that is already resident stores the new order, *)
(* makes the key the most recent one, and removes no key: the resident set *)
(* and every other stored order stay as they were, also on a full cache.   *)
C5_SetResidentReplaces ==
  [][(last'.op = "Set" /\ last'.uid \in Resident(cache))
     => /\ cache'.orders = [cache.orders EXCEPT ![last'.uid] = last'.order]
        /\ HeadKey(cache') = last'.uid
        /\ Size(cache') = Size(cache)
    ]_vars

C5_Witness ==
  /\ last.op = "Set"
  /\ last.resident
  /\ last.before >= cache.maxSize
  /\ last.before >= 2
  /\ cache.orders[last.uid] = last.order

(* C6: after Restore(os) the resident keys are exactly the identifiers of  *)
(* the first min(Len(os), capacity) elements of os.                        *)
C6_RestoreResidents ==
  [][last'.op = "Restore"
     => Resident(cache')
          = {last'.orders[i].OrderUID :
               i \in 1..Min(Len(last'.orders), cache.maxSize)}
    ]_vars

(* C7 as stated: after Restore(os) with more elements than the capacity,   *)
(* the first element is the most recent entry and the retained element     *)
(* that came last in the input is the least recent one.                    *)
C7_RestoreFirstIsMostRecent ==
  [][(last'.op = "Restore" /\ Len(last'.orders) > cache.maxSize)
     => /\ HeadKey(cache') = last'.orders[1].OrderUID
        /\ TailKey(cache') = last'.orders[Taken(cache')].OrderUID
    ]_vars

(* C7 amended: after Restore(os) with more elements than the capacity, the *)
(* recency list read from the tail to the head is the part of the input    *)
(* Restore went through: the first element is the least recent entry (the  *)
(* next to be evicted) and the last element taken is the most recent one.  *)
Reverse(s) == [i \in 1..Len(s) |-> s[Len(s) + 1 - i]]

C7_RestoreFirstIsLeastRecent ==
  [][(last'.op = "Restore" /\ Len(last'.orders) > cache.maxSize)
     => /\ TailKey(cache') = last'.orders[1].OrderUID
        /\ HeadKey(cache') = last'.orders[Taken(cache')].OrderUID
        /\ Reverse(ListKeys(cache'))
             = SubSeq(IdsOf(last'.orders), 1, Taken(cache'))
    ]_vars

C7_Witness ==
  /\ last.op = "Restore"
  /\ Len(last.orders) > cache.maxSize
  /\ Size(cache) = 2
  /\ TailKey(cache) = last.orders[1].OrderUID
  /\ HeadKey(cache) = last.orders[2].OrderUID
  /\ HeadKey(cache) # TailKey(cache)
(* C8: calls of Get, Set, Restore and Size by concurrent goroutines are    *)
(* atomic: a call that holds the write lock is alone in its critical       *)
(* section, and when a call has run its statements the cache and its       *)
(* results are those of the whole operation applied to the cache it found  *)
(* when it took the lock, so every execution equals the sequential one in  *)
(* lock order and no call sees another one's half-made update.             *)
InSection(t) == th[t].pc \notin {"idle", "lock"}

C8_CallsAreAtomic ==
  /\ \A t \in Threads :
       (InSection(t) /\ LockMode(th[t].op) = "W")
         => \A u \in Threads \ {t} : ~InSection(u)
  /\ \A t \in Threads :
       th[t].pc = "unlock" =>
         CASE th[t].op = "Get" ->
                /\ cache = Get(th[t].snap, th[t].uid).c
                /\ th[t].ret = Get(th[t].snap, th[t].uid).order
                /\ th[t].ok = Get(th[t].snap, th[t].uid).ok
           [] th[t].op = "Set" -> cache = Set(th[t].snap, th[t].order)
           [] th[t].op = "Restore" -> cache = Restore(th[t].snap, th[t].os)
           [] th[t].op = "Size" ->
                /\ cache = th[t].snap
                /\ th[t].n = Size(th[t].snap)

(* a Set is between its eviction and its insertion while another goroutine *)
(* waits for the lock with a Get                                           *)
C8_Witness ==
  \E t \in Threads, u \in Threads :
    /\ t # u
    /\ th[t].pc = "Set_put"
    /\ Size(cache) < Size(th[t].snap)
    /\ th[u].pc = "lock"
    /\ th[u].op = "Get"
(* ---------------------------------------------------------------------- *)
(* Properties of the ingestion pipeline                                    *)
(* ---------------------------------------------------------------------- *)
(* C9: a message that does not decode, or whose order validateOrder        *)
(* rejects, is marked at once, the loop goes on to the next message, the   *)
(* store and the cache stay as they were, and neither InsertOrder nor      *)
(* cache Set is ever called for it.                                        *)
C9_DroppedMessages ==
  /\ [](\A p \in Partitions :
          claim[p].err # "" => (claim[p].ups = 0 /\ claim[p].sets = 0))
  /\ [][\A p \in Partitions :
          (claim[p].err = "" /\ claim'[p].err # "")
            => /\ marked'[p] >= claim[p].off + 1
               /\ claim'[p].pc = "recv"
               /\ claim'[p].next = claim[p].off + 1
               /\ db' = db
               /\ cache' = cache
       ]_vars

(* the validator rejected the second message of the partition after a      *)
(* first one was stored and cached                                         *)
C9_Witness ==
  \E p \in Partitions :
    /\ claim[p].err = "invalid numeric values in payment"
    /\ claim[p].off = 2
    /\ marked[p] = 3
    /\ Size(cache) >= 1
    /\ db # EmptyDb

(* C10: when InsertOrder returns an error for a valid message, the message *)
(* is not marked, cache Set is not called, InsertOrder is not called again *)
(* for that delivery, and the next session delivers the message again.     *)
C10_FailedUpsertIsRedelivered ==
  [][/\ \A p \in Partitions :
          (claim[p].pc \in {"insert", "tx"} /\ claim'[p].pc = "recv")
            => /\ marked' = marked
               /\ cache' = cache
               /\ claim'[p].ups = 1
               /\ claim'[p].sets = 0
     /\ (wk.pc = "consume" /\ wk'.pc = "session")
          => \A p \in Partitions :
               \A off \in failed[p] : claim'[p].next <= off
    ]_vars

(* a payload that decodes and that validateOrder accepts at any time *)
ValidPayload(v) ==
  /\ v.json
  /\ \A t \in Times : validateOrder(v.doc, t) = ""

(* C11: every valid message of a partition whose offset lies below the     *)
(* position marked for the partition (the stream regards it as             *)
(* acknowledged) has been upserted into the store and set in the cache,    *)
(* also when a message whose upsert failed is followed by messages that    *)
(* succeed.                                                                *)
C11_AckedIsPersisted ==
  \A p \in Partitions :
    \A off \in 1..Len(log[p]) :
      (off < marked[p] /\ ValidPayload(log[p][off])) => off \in done[p]

(* C12: for a message that decodes and validates, cache Set is called only *)
(* after InsertOrder has committed and returned nil, and the message is    *)
(* marked only after cache Set has returned.                               *)
C12_SuccessOrdering ==
  /\ [](\A p \in Partitions :
          /\ claim[p].pc = "set"
                => /\ claim[p].ups = 1 /\ claim[p].sets = 0
                   /\ OrderFound(db, claim[p].order.OrderUID)
          /\ claim[p].pc = "mark"
                => /\ claim[p].ups = 1 /\ claim[p].sets = 1
                   /\ claim[p].off \in done[p])
  /\ [][\A p \in Partitions :
          /\ (claim[p].pc # "set" /\ claim'[p].pc = "set")
                => /\ claim[p].pc = "tx"
                   /\ db' = InsertOrder(db, claim[p].order)
                   /\ cache' = cache
                   /\ marked' = marked
          /\ claim'[p].sets > claim[p].sets
                => /\ claim[p].pc = "set"
                   /\ claim'[p].pc = "mark"
                   /\ marked' = marked
          /\ (marked'[p] # marked[p] /\ claim'[p].err = "")
                => /\ claim[p].pc = "mark"
                   /\ claim[p].sets = 1
       ]_vars

(* a valid message went through upsert, Set and mark *)
C12_Witness ==
  \E p \in Partitions :
    /\ claim[p].pc = "recv"
    /\ claim[p].err = ""
    /\ claim[p].ups = 1
    /\ claim[p].sets = 1
    /\ marked[p] = claim[p].off + 1
    /\ claim[p].off \in done[p]

(* C13: with warm start, the ingestion worker and lookups interleaved,     *)
(* every identifier resident in the cache has a committed order row in the *)
(* store.                                                                  *)
C13_StoreNeverBehindCache ==
  \A uid \in Resident(cache) : uid \in DOMAIN db.orders

(* the cache holds an entry the worker set and a lookup has backfilled one *)
C13_Witness ==
  /\ \E p \in Partitions : done[p] # {}
  /\ \E h \in Handlers : rq[h].pc = "done" /\ rq[h].sets = 1
  /\ Size(cache) >= 1

(* no upsert is between its commit and its cache Set, and no lookup is     *)
(* between its fetch and its backfill                                      *)
Quiet ==
  /\ \A p \in Partitions : claim[p].pc # "set"
  /\ \A h \in Handlers : rq[h].pc \notin {"items", "set"}

(* C14: for every identifier resident in the cache, the cached order       *)
(* equals the order the store returns for it; a later valid message with   *)
(* a stored identifier and other content replaces the stored record as a   *)
(* whole. Stated for the states in which no write is half-way.             *)
C14_CacheEqualsStore ==
  Quiet =>
    \A uid \in Resident(cache) :
      /\ OrderFound(db, uid)
      /\ cache.orders[uid] = Assemble(db, uid)

(* the record of the message at offset off was ingested before: an offset  *)
(* of the partition with the same payload has been upserted and set        *)
IngestedBefore(p, off) == \E o \in done[p] : log[p][o] = log[p][off]

(* C15: the upsert of a record that was ingested before commits and leaves *)
(* the store as it was, with one order, delivery and payment row for the   *)
(* identifier and one item row per (identifier, chrt_id); the cache Set    *)
(* that follows leaves the record as the cached value.                     *)
C15_IngestionIdempotent ==
  [][\A p \in Partitions :
       /\ (claim[p].pc = "tx" /\ claim'[p].pc = "set"
              /\ IngestedBefore(p, claim[p].off))
            => /\ db' = db
               /\ OrderFound(db', claim[p].order.OrderUID)
               /\ \A i \in 1..Len(claim[p].order.Items) :
                     <<claim[p].order.OrderUID,
                       claim[p].order.Items[i].ChrtID>> \in DOMAIN db'.items
               /\ Cardinality({k \in DOMAIN db'.items :
                                 k[1] = claim[p].order.OrderUID})
                    = Cardinality({k \in DOMAIN db.items :
                                     k[1] = claim[p].order.OrderUID})
       /\ (claim[p].pc = "set" /\ claim'[p].pc = "mark")
            => cache'.orders[claim[p].order.OrderUID] = claim[p].order
    ]_vars

(* the same document was ingested from two offsets *)
C15_Witness ==
  \E p \in Partitions :
    /\ done[p] = {1, 2}
    /\ log[p][1] = log[p][2]
    /\ claim[p].pc = "mark"
    /\ claim[p].off = 2
    /\ cache.orders["A"] = MkOrder("A", 2)

C17_NotFoundNoEffect ==
  [][\A h \in Handlers :
       /\ rq'[h] # rq[h] => db' = db
       /\ (rq[h].pc = "get" /\ rq'[h].pc # "get"
              /\ rq[h].uid \notin Resident(cache))
            => /\ cache' = cache
               /\ rq'[h].pc = "fetch"
       /\ (rq[h].pc = "fetch" /\ rq'[h] # rq[h]
              /\ ~OrderFound(db, rq[h].uid))
            => /\ rq'[h].pc = "done"
               /\ rq'[h].status = StatusNotFound
               /\ rq'[h].sets = 0
               /\ cache' = cache
    ]_vars

(* a lookup went through a miss and an empty fetch next to a filled cache *)
C17_Witness ==
  \E h \in Handlers :
    /\ rq[h].pc = "done"
    /\ rq[h].status = StatusNotFound
    /\ rq[h].gets = 1
    /\ rq[h].fetches = 1
    /\ ~OrderFound(db, rq[h].uid)
    /\ Size(cache) >= 1

(* a request with an empty uid parameter and no identifier after /order/ *)
NoIdentifier(r) == r.query = "" /\ r.path \in {"/order", "/order/"}

(* C18: a lookup request that carries no identifier is answered with       *)
(* StatusBadRequest, not StatusNotFound, and neither cache Get nor the     *)
(* store fetch is called for it.                                           *)
C18_BadRequest ==
  /\ [][\A h \in Handlers :
          (rq[h].pc = "idle" /\ rq'[h].pc # "idle" /\ NoIdentifier(rq'[h]))
            => /\ rq'[h].pc = "done"
               /\ rq'[h].status = StatusBadRequest
       ]_vars
  /\ [](\A h \in Handlers :
          NoIdentifier(rq[h]) /\ rq[h].pc # "idle"
            => rq[h].gets = 0 /\ rq[h].fetches = 0)

(* C19: the store changes only by the commit of a whole InsertOrder, which *)
(* adds the order, delivery, payment and item rows together; when Begin, a *)
(* statement or the commit fails InsertOrder returns an error and the      *)
(* store holds none of the rows of that call.                              *)
C19_UpsertAtomic ==
  [][/\ db' # db
          => \E p \in Partitions :
               /\ claim[p].pc = "tx"
               /\ claim'[p].pc = "set"
               /\ db' = InsertOrder(db, claim[p].order)
     /\ \A p \in Partitions :
          (claim[p].pc \in {"insert", "tx"} /\ claim'[p].pc = "recv")
            => /\ db' = db
               /\ claim[p].off \in failed'[p]
               /\ claim'[p].sets = 0
    ]_vars

(* a transaction has written the order row while a lookup of the same      *)
(* identifier found nothing in the store                                   *)
C19_Witness ==
  \E p \in Partitions, h \in Handlers :
    /\ claim[p].pc = "tx"
    /\ claim[p].tx.step >= 3
    /\ claim[p].order.OrderUID \in DOMAIN claim[p].tx.view.orders
    /\ claim[p].order.OrderUID \notin DOMAIN db.orders
    /\ rq[h].pc = "done"
    /\ rq[h].uid = claim[p].order.OrderUID
    /\ rq[h].status = StatusNotFound
    /\ rq[h].fetches = 1

(* ---------------------------------------------------------------------- *)
(* Properties of validateOrder                                             *)
(* ---------------------------------------------------------------------- *)
(* the conditions under which an order is to be rejected at time t *)
Rejected(o, t) ==
  \/ o.DateCreated > t + 60
  \/ \E f \in {"OrderUID", "TrackNumber", "Entry", "Locale", "CustomerID",
                "DeliveryService", "Shardkey", "OofShard"} : o[f] = ""
  \/ \E f \in DOMAIN o.Delivery : o.Delivery[f] = ""
  \/ \E f \in {"Transaction", "Currency", "Provider", "Bank"} :
       o.Payment[f] = ""
  \/ o.Payment.Amount <= 0
  \/ o.Payment.PaymentDt <= 0
  \/ o.Payment.DeliveryCost < 0
  \/ o.Payment.GoodsTotal <= 0
  \/ o.Payment.CustomFee < 0
  \/ Len(o.Items) = 0
  \/ \E i \in 1..Len(o.Items) :
       \/ o.Items[i].ChrtID = 0
       \/ \E f \in {"TrackNumber", "Rid", "Name", "Size", "Brand"} :
            o.Items[i][f] = ""
       \/ o.Items[i].Price <= 0
       \/ o.Items[i].Sale < 0
       \/ o.Items[i].TotalPrice <= 0
       \/ o.Items[i].NmID = 0
       \/ o.Items[i].Status <= 0

(* C20: validateOrder returns an error exactly when one of the listed      *)
(* conditions holds for the order, nil otherwise, and the call changes     *)
(* neither the order nor the cache nor the store.                          *)
C20_ValidatorDecision ==
  /\ []((last.op = "validateOrder" /\ last.called)
          => (last.err # "" <=> Rejected(last.order, last.now)))
  /\ [][(last.op = "validateOrder" /\ last'.called)
          => /\ last'.order = last.order
             /\ cache' = cache
             /\ db' = db
       ]_vars

(* an order whose only defect is a negative custom fee was rejected *)
C20_Witness ==
  /\ last.op = "validateOrder"
  /\ last.called
  /\ last.order = [GoodOrder EXCEPT !.Payment.CustomFee = -1]
  /\ last.err = "invalid numeric values in payment"

(* sub occurs in s as a run of consecutive characters *)
Contains(s, sub) ==
  \E i \in 1..(Len(s) - Len(sub) + 1) :
    SubSeq(s, i, i + Len(sub) - 1) = sub

(* the four single defects and the JSON name of the field each one is in *)
SingleDefects ==
  {<<[GoodOrder EXCEPT !.OrderUID = ""], "order_uid">>,
   <<[GoodOrder EXCEPT !.Payment.Amount = 0], "amount">>,
   <<[GoodOrder EXCEPT !.Items = <<>>], "items">>,
   <<[GoodOrder EXCEPT !.Items[1].ChrtID = 0], "chrt_id">>}

(* C21: an otherwise valid order with exactly one of order_uid empty,      *)
(* payment.amount = 0, items empty, items[0].chrt_id = 0 is rejected by    *)
(* validateOrder with a reason that contains the name of that field.       *)
C21_ReasonNamesField ==
  (last.op = "validateOrder" /\ last.called)
    => \A d \in SingleDefects :
         last.order = d[1]
           => /\ last.err # ""
              /\ Contains(last.err, d[2])

(* payment.amount = 0 was rejected with a reason that names only the group *)
C21_GroupOnly ==
  /\ last.op = "validateOrder"
  /\ last.called
  /\ last.order = [GoodOrder EXCEPT !.Payment.Amount = 0]
  /\ last.err = "invalid numeric values in payment"
  /\ ~Contains(last.err, "amount")

(* the empty order_uid was rejected with a reason that names the field *)
C21_FieldNamed ==
  /\ last.op = "validateOrder"
  /\ last.called
  /\ last.order = [GoodOrder EXCEPT !.OrderUID = ""]
  /\ Contains(last.err, "order_uid")

(* the identifiers the store holds *)
Stored(d) == DOMAIN d.orders

(* C22: at boot the store is fetched in full and the cache restored from   *)
(* the result before the worker is started and before any lookup is        *)
(* served; with n orders in the store the cache then holds exactly         *)
(* min(n, C) entries, each an identifier of the store; when the fetch      *)
(* fails the process stops with no worker started and no lookup served.    *)
C22_WarmStart ==
  /\ []((wk.pc # "idle" \/ \E h \in Handlers : rq[h] # NoRequest)
          => main = "serve")
  /\ [](main = "fatal" => /\ wk = NoWorker
                          /\ \A h \in Handlers : rq[h] = NoRequest)
  /\ [][/\ main' = "serve" => main \in {"new", "serve"}
        /\ main' = "new" => main \in {"boot", "new"}
        /\ main = "fatal" => main' = "fatal"
        /\ (main = "boot" /\ main' = "new")
             => /\ Size(cache') = Min(Cardinality(Stored(db)), cache.maxSize)
                /\ Resident(cache') \subseteq Stored(db)
                /\ \E os \in GetAllOrders(db) :
                     cache' = Compact(Restore(cache, os))
                /\ db' = db
       ]_vars

(* a store of two orders was restored into a cache of capacity one, and    *)
(* the worker then started, with nothing yet on the topic                  *)
C22_Witness ==
  /\ main = "serve"
  /\ wk.pc = "consume"
  /\ cache.maxSize = 1
  /\ Cardinality(Stored(db)) = 2
  /\ Size(cache) = 1
  /\ Resident(cache) \subseteq Stored(db)
  /\ \A p \in Partitions : log[p] = <<>>

(* the upsert of the claim's message has started and the message is not    *)
(* yet at the end of its path                                              *)
MidMessage(c) == c.pc \in {"tx", "set", "mark"}

(* C23: once Close has signalled stop the worker exits only between        *)
(* messages: a message whose upsert has started goes on along its path     *)
(* (persisted, then cached, then acknowledged, or persist-failed) and the  *)
(* worker does not exit before it is at the end; Close returns only after  *)
(* the worker has exited.                                                  *)
C23_ShutdownBetweenMessages ==
  /\ [](wk.pc = "exited"
          => /\ wk.stopChan = "closed"
             /\ \A p \in Partitions : claim[p].pc = "off")
  /\ [](wk.close \in {"client", "done"} => wk.pc = "exited")
  /\ [][\A p \in Partitions :
          MidMessage(claim[p])
            => /\ wk'.pc = wk.pc
               /\ wk.pc = "session"
               /\ claim'[p].off = claim[p].off
               /\ claim'[p].order = claim[p].order
               /\ \/ claim'[p] = claim[p]
                  \/ /\ claim[p].pc = "tx"
                     /\ claim'[p].pc = "tx"
                     /\ db' = db
                  \/ /\ claim[p].pc = "tx"
                     /\ claim'[p].pc = "set"
                     /\ OrderFound(db', claim[p].order.OrderUID)
                  \/ /\ claim[p].pc = "tx"
                     /\ claim'[p].pc = "recv"
                     /\ claim[p].off \in failed'[p]
                     /\ db' = db
                  \/ /\ claim[p].pc = "set"
                     /\ claim'[p].pc = "mark"
                     /\ claim[p].order.OrderUID \in Resident(cache')
                  \/ /\ claim[p].pc = "mark"
                     /\ claim'[p].pc = "recv"
                     /\ marked'[p] >= claim[p].off + 1
       ]_vars

(* Close has signalled stop and waits, the session is ending, and the      *)
(* message in flight is persisted and cached and about to be acknowledged  *)
C23_Witness ==
  /\ wk.stopChan = "closed"
  /\ wk.close = "wait"
  /\ wk.pc = "session"
  /\ wk.closing
  /\ \E p \in Partitions :
       /\ claim[p].pc = "mark"
       /\ OrderFound(db, claim[p].order.OrderUID)
       /\ claim[p].order.OrderUID \in Resident(cache)

(* Close has returned after a worker that processed a message *)
C23_Closed ==
  /\ wk.close = "done"
  /\ wk.pc = "exited"
  /\ \E p \in Partitions : done[p] # {}

(* the step is a cache.Set(order) of the worker or of a handler, for uid *)
SetStepOf(uid) ==
  \/ \E p \in Partitions :
       /\ claim[p].pc = "set"
       /\ claim'[p].pc = "mark"
       /\ claim[p].order.OrderUID = uid
  \/ \E h \in Handlers :
       /\ rq[h].pc = "set"
       /\ rq'[h].pc = "done"
       /\ rq[h].order.OrderUID = uid

(* C24: in every step of the service, a key that is resident before the    *)
(* step and not after it was the least recently touched key and the step   *)
(* is a Set of a non-resident identifier on a full cache, or the step is   *)
(* the Restore; and the identifiers of the store never become fewer.       *)
C24_OnlyEvictionRemoves ==
  [][/\ \A k \in Resident(cache) \ Resident(cache') :
          \/ main = "boot" /\ main' = "new"
          \/ /\ \E uid \in Resident(cache') \ Resident(cache) :
                   SetStepOf(uid)
             /\ Size(cache) >= cache.maxSize
             /\ touched # <<>>
             /\ k = touched[Len(touched)]
             /\ Resident(cache) \ Resident(cache') = {k}
     /\ Stored(db) \subseteq Stored(db')
    ]_vars

(* with capacity two and A, B, C in the store, a lookup of C missed and    *)
(* its backfill evicted the least recently touched of the two residents    *)
C24_Witness ==
  /\ cache.maxSize = 2
  /\ Stored(db) = {"A", "B", "C"}
  /\ \E h \in Handlers :
       /\ rq[h].pc = "done"
       /\ rq[h].uid = "C"
       /\ rq[h].gets = 1
       /\ rq[h].fetches = 1
       /\ rq[h].sets = 1
  /\ Size(cache) = 2
  /\ "C" \in Resident(cache)
  /\ touched[1] = "C"

(* number of places of the list that hold the key k *)
Occurrences(ks, k) == Cardinality({i \in DOMAIN ks : ks[i] = k})

(* C25: after any sequence of Get, Set and Restore calls, Restore inputs    *)
(* that repeat an identifier included, the keys of orders, the keys of the *)
(* node index and the keys on the recency list are the same set; every     *)
(* resident key is on the list exactly once; the list is Size() long;      *)
(* head and tail are nil exactly when the cache is empty; head.prev and    *)
(* tail.next are nil.                                                      *)
C25_StructuralInvariant ==
  /\ DOMAIN cache.orders = DOMAIN cache.nodeMap
  /\ Range(ListKeys(cache)) = DOMAIN cache.orders
  /\ \A k \in Resident(cache) : Occurrences(ListKeys(cache), k) = 1
  /\ Len(ListKeys(cache)) = Size(cache)
  /\ (cache.lruHead = Nil) <=> (Size(cache) = 0)
  /\ (cache.lruTail = Nil) <=> (Size(cache) = 0)
  /\ cache.lruHead # Nil => cache.nodes[cache.lruHead].prev = Nil
  /\ cache.lruTail # Nil => cache.nodes[cache.lruTail].next = Nil

(* a restored slice that repeats A left two nodes for the one resident key *)
C25_DuplicateNode ==
  /\ last.op = "Restore"
  /\ Resident(cache) = {"A"}
  /\ ListKeys(cache) = <<"A", "A">>

(* C26: for every capacity the constructor accepts, whenever Set decides   *)
(* to evict (a new identifier with the resident count at or above the      *)
(* capacity) the recency list is not empty, and evictLRU removes exactly   *)
(* one resident entry.                                                     *)
C26_EvictionOnNonEmpty ==
  [][(/\ last'.op = "Set"
      /\ last'.uid \notin Resident(cache)
      /\ Size(cache) >= cache.maxSize)
       => /\ cache.lruTail # Nil
          /\ Size(evictLRU(cache)) = Size(cache) - 1
    ]_vars

(* a Set on the empty cache of capacity zero went through evictLRU *)
C26_EvictOnEmpty ==
  /\ cache.maxSize = 0
  /\ last.op = "Set"
  /\ last.before = 0
  /\ ~last.resident
  /\ Size(cache) = 1

(* C27: after Close is called on a started Consumer the worker sees the    *)
(* stop signal and exits, the wait inside Close ends and Close returns,    *)
(* the consume call returning only on error, rebalance or a closed client. *)
C27_CloseReturns == (wk.close = "wait") ~> (wk.close = "done")

(* Close waits on the WaitGroup while the worker is inside Consume with a  *)
(* session that is not ending and a client that is still open              *)
C27_CloseBlocked ==
  /\ wk.close = "wait"
  /\ wk.stopChan = "closed"
  /\ wk.wg = 1
  /\ wk.pc = "session"
  /\ ~wk.closing
  /\ wk.client = "open"
  /\ \A p \in Partitions : claim[p].pc = "recv" /\ claim[p].next > Len(log[p])

(* a step in which InsertOrder returns an error *)
StoreFails == \E p \in Partitions : InsertFail(p)

(* the valid message at offset off is in the loop body, past validation *)
Delivered(off) ==
  \E p \in Partitions : claim[p].off = off /\ claim[p].pc = "insert"

(* the message at offset off was upserted and cached and is acknowledged *)
Processed(off) ==
  \E p \in Partitions : off \in done[p] /\ marked[p] > off

(* C28: when the store fails only finitely often and the group delivers    *)
(* un-acknowledged messages again, every valid message delivered to the    *)
(* loop is eventually upserted and acknowledged, without a restart and     *)
(* whatever happens to later messages of the partition.                    *)
C28_AtLeastOnce ==
  (<>[][~StoreFails]_vars)
    => \A off \in 1..MaxLog : Delivered(off) ~> Processed(off)

(* the upsert of message 1 failed, message 2 was processed and marked, and *)
(* the group resumes after both                                            *)
C28_Skipped ==
  \E p \in Partitions :
    /\ 1 \in failed[p]
    /\ 1 \notin done[p]
    /\ 2 \in done[p]
    /\ marked[p] = 3
    /\ claim[p].pc = "recv"
====
